---------------------------- MODULE Spec2Model ----------------------------
(***************************************************************************)
(* Pagerando code-generation core: the first-fit bin packer, the           *)
(* call-graph packer, the entry-wrapper pass and the ARM intra-bin         *)
(* optimizer, each as a state machine translated from its source.          *)
(*                                                                         *)
(* Five specifications share the module's variables; each drives one       *)
(* component and leaves the variables of the others untouched:             *)
(*   SpecFF  FirstFitAlgo::assignToBin      lib/CodeGen/PagerandoBinning   *)
(*   SpecCG  CallGraphAlgo                  unnamed/part_019               *)
(*   SpecW   PagerandoWrappers              unnamed/part_017               *)
(*   SpecIPO PagerandoWrappers with the POT lib/Transforms/IPO             *)
(*   SpecO   PagerandoOptimizer (ARM)       lib/Target/ARM                 *)
(***************************************************************************)
EXTENDS Integers, Sequences, FiniteSets, TLC

VARIABLES
  \* first-fit packer (FirstFitAlgo / SimpleAlgo)
  Bins,        \* std::multimap<unsigned, Bin>: sequence of <<free, bin>>, key order
  BinCount,    \* next fresh bin id
  MaxBinSize,  \* getMaxBinSize(F): 511, 1023 or 0
  isUniPOT,    \* isUniPOT(F)
  fatal,       \* report_fatal_error was reached
  log,         \* history: one record per completed assignToBin call
  \* call-graph packer (CallGraphAlgo); its SAlgo member is Bins/BinCount above
  Nodes,       \* std::vector<Node>: Nodes[Id + 1] is the node with that Id
  Worklist,    \* std::vector<Node*> of computeAssignments, as the set of its ids
  cgBins,      \* std::map<NodeId, Bin> of computeAssignments
  cgpc,        \* "build": graph under construction, "pack": in the loop, "done"
  picks,       \* history: one record per iteration of the assignment loop
  \* ARM intra-bin optimizer (PagerandoOptimizer::runOnMachineFunction)
  MF,          \* the machine function: instructions, constant pool, counters
  MF0,         \* history: the machine function as instruction selection left it
  Workset,     \* SmallSet<int, 8>: indices of the intra-bin constant-pool entries
  Uses,        \* std::vector<MachineInstr*>: the uses not yet optimized
  optpc,       \* "start", "optimize", "done"
  assertFailed,\* the assertion of deleteCPEntries was violated
  \* entry-wrapper pass (PagerandoWrappers::runOnModule)
  Mod,         \* the module: function list, uses of its functions, id counter
  Mod0,        \* history: the module as the pass received it
  WrapWorklist,\* std::vector<Function*> Worklist of runOnModule, as ids
  wpc          \* "start", "process", "done"

ffVars == <<Bins, BinCount, MaxBinSize, isUniPOT, fatal, log>>

cgVars == <<Nodes, Worklist, cgBins, cgpc, picks>>

optVars == <<MF, MF0, Workset, Uses, optpc, assertFailed>>

wVars == <<Mod, Mod0, WrapWorklist, wpc>>

vars == <<ffVars, cgVars, optVars, wVars>>

\* what each component leaves alone
notFF == <<cgVars, optVars, wVars>>

notCG == <<optVars, wVars>>

notOpt == <<ffVars, cgVars, wVars>>

notW == <<ffVars, cgVars, optVars>>

-----------------------------------------------------------------------------
(* Bounds of the model and program constants *)

\* number of assignToBin requests issued under SpecFF
MaxRequests == 4

\* cl::opt pagerando-bin-size, cl::init(4096); BinSize = 4096 in the header
BinSize == 4096

\* PagerandoBinnerBase::MinFnSize
MinFnSize == 2

\* getMaxBinSize: aarch64 / arm
MaxBinsAArch64 == 511

MaxBinsARM == 1023

\* `unsigned` arithmetic wraps modulo 2^32.  TLC's integers are 32-bit signed, so
\* the model wraps modulo 2^30: like 2^32 it is a multiple of BinSize, hence a
\* wrapped value has the same residue modulo BinSize and, for the sizes the
\* model draws, the same order against BinSize and against unwrapped values.
UWrap == 2 ^ 30

\* number of call-graph nodes (SCCs with a pagerando function) under SpecCG
MaxNodes == 4

\* self sizes of call-graph nodes: small, a good part of a bin, more than a bin
NodeSizes == {100, 1500, 5000}

\* request sizes: the sizes the unit tests use, below, at and above BinSize
FnSizes == {1, 100, 1000, 3000, 3001, 4095, BinSize, 8000}

Min(S) == CHOOSE x \in S : \A y \in S : x <= y

Max(S) == CHOOSE x \in S : \A y \in S : x >= y

-----------------------------------------------------------------------------
(* std::multimap<unsigned, Bin> as a key-ordered sequence of <<key, value>> *)

\* a worst-fit search: the last entry whose key is >= k
lower_bound_last(M, k) ==
  LET S == {i \in 1..Len(M) : M[i][1] >= k}
  IN  IF S = {} THEN 0 ELSE Max(S)

\* multimap::lower_bound: index of the first entry whose key is >= k, 0 for end()
lower_bound(M, k) ==
  LET S == {i \in 1..Len(M) : M[i][1] >= k}
  IN  IF S = {} THEN 0 ELSE Min(S)

\* multimap::emplace: the new entry goes at the upper bound of its key's range
emplace(M, k, v) ==
  LET pos == Cardinality({i \in 1..Len(M) : M[i][1] <= k})
  IN  SubSeq(M, 1, pos) \o <<<<k, v>>>> \o SubSeq(M, pos + 1, Len(M))

\* multimap::erase(iterator)
erase(M, i) == SubSeq(M, 1, i - 1) \o SubSeq(M, i + 1, Len(M))

-----------------------------------------------------------------------------
(* FirstFitAlgo::assignToBin / SimpleAlgo::assignToBin *)

\* a packer that keeps every bin with free space left
reinsert_anyFree(M, FreeSpace, Bin) ==
  IF FreeSpace >= 1 THEN emplace(M, FreeSpace, Bin) ELSE M

\* the free space a bin keeps after the request: reinserted only when a
\* function of minimum size still fits
reinsert(M, FreeSpace, Bin) ==
  IF FreeSpace >= MinFnSize THEN emplace(M, FreeSpace, Bin) ELSE M

\* a fresh bin that forgets the function that opened it
freshFreeSpace_whole(FnSize) == BinSize

\* a fresh bin that a function of a multiple of BinSize leaves empty
freshFreeSpace_emptyOnMultiple(FnSize) == BinSize - (FnSize % BinSize)

\* a fresh bin that an oversize function fills
freshFreeSpace_oversizeFull(FnSize) ==
  IF FnSize > BinSize \/ FnSize % BinSize = 0 THEN 0 ELSE BinSize - (FnSize % BinSize)

\* the free space of a fresh bin forced open by FnSize
freshFreeSpace(FnSize) ==
  LET Size == FnSize % BinSize
  IN  IF Size = 0 THEN 0 ELSE BinSize - Size

\* the body of assignToBin after the uni-POT check: the result is the bin
\* returned and the packer state left behind
assignToBin(M, Count, FnSize) ==
  LET I == lower_bound(M, FnSize)
  IN  IF I # 0
      THEN LET FreeSpace == (M[I][1] - FnSize) % UWrap
               Bin       == M[I][2]
           IN  [Bin |-> Bin, fresh |-> FALSE,
                Bins |-> reinsert(erase(M, I), FreeSpace, Bin),
                BinCount |-> Count]
      ELSE LET Bin       == Count
               FreeSpace == freshFreeSpace(FnSize)
           IN  [Bin |-> Bin, fresh |-> TRUE,
                Bins |-> reinsert(M, FreeSpace, Bin),
                BinCount |-> (Count + 1) % UWrap]

\* a limit that is noticed one bin late
binLimitReached_late(Count, Limit, UniPOT) ==
  Limit > 0 /\ UniPOT /\ Count > Limit + 1

\* the guard in front of it: with a uni-POT and a target limit, a packer that
\* has already handed out MaxBinSize bins stops compilation
binLimitReached(Count, Limit, UniPOT) ==
  Limit > 0 /\ UniPOT /\ Count > Limit

\* one call of FirstFitAlgo::assignToBin(FnSize, MaxBinSize, isUniPOT)
AssignRequest(FnSize) ==
  /\ ~fatal
  /\ Len(log) < MaxRequests
  /\ IF binLimitReached(BinCount, MaxBinSize, isUniPOT)
     THEN /\ fatal' = TRUE
          /\ UNCHANGED <<Bins, BinCount, log>>
     ELSE LET r == assignToBin(Bins, BinCount, FnSize)
          IN  /\ Bins' = r.Bins
              /\ BinCount' = r.BinCount
              /\ log' = Append(log, [size |-> FnSize, bin |-> r.Bin,
                                     fresh |-> r.fresh, before |-> Bins,
                                     countBefore |-> BinCount,
                                     countAfter |-> r.BinCount])
              /\ fatal' = FALSE
  /\ UNCHANGED <<MaxBinSize, isUniPOT>>
  /\ UNCHANGED notFF

Assign == \E FnSize \in FnSizes : AssignRequest(FnSize)

\* the variables of the components a specification does not drive
\* no module is being processed
IdleW ==
  /\ Mod = <<>>
  /\ Mod0 = <<>>
  /\ WrapWorklist = <<>>
  /\ wpc = "idle"

\* no machine function is being optimized
IdleOpt ==
  /\ MF = <<>>
  /\ MF0 = <<>>
  /\ Workset = {}
  /\ Uses = <<>>
  /\ optpc = "idle"
  /\ assertFailed = FALSE

IdleCG ==
  /\ Nodes = <<>>
  /\ Worklist = {}
  /\ cgBins = <<>>
  /\ cgpc = "idle"
  /\ picks = <<>>

\* a packer whose bin counter starts at the reserved bin
InitFF_fromZero ==
  /\ Bins = <<>>
  /\ BinCount = 0
  /\ MaxBinSize \in {0, MaxBinsAArch64, MaxBinsARM}
  /\ isUniPOT \in BOOLEAN
  /\ fatal = FALSE
  /\ log = <<>>
  /\ IdleCG
  /\ IdleOpt
  /\ IdleW

\* FirstFitAlgo as constructed (BinCount = 1, no bins), with the two values the
\* binner passes to every call
InitFF ==
  /\ Bins = <<>>
  /\ BinCount = 1
  /\ MaxBinSize \in {0, MaxBinsAArch64, MaxBinsARM}
  /\ isUniPOT \in BOOLEAN
  /\ fatal = FALSE
  /\ log = <<>>
  /\ IdleCG
  /\ IdleOpt
  /\ IdleW

NextFF == Assign

SpecFF == InitFF /\ [][NextFF]_vars

-----------------------------------------------------------------------------
(* Claims about the first-fit packer, checked under SpecFF *)

\* the entries of a multimap snapshot that can take a request of this size
fitting(M, FnSize) == {k \in 1..Len(M) : M[k][1] >= FnSize}

\* C1: any two requests that were assigned the same bin have sizes whose sum
\* does not exceed BinSize, unless one of the two exceeds BinSize on its own.
C1_SameBinWithinCapacity ==
  \A i, j \in 1..Len(log) :
    (i # j /\ log[i].bin = log[j].bin) =>
      \/ log[i].size + log[j].size <= BinSize
      \/ log[i].size > BinSize
      \/ log[j].size > BinSize

\* two requests, neither oversize, share a bin
C1_Witness ==
  \E i, j \in 1..Len(log) :
    /\ i < j
    /\ log[i].bin = log[j].bin
    /\ log[i].size <= BinSize
    /\ log[j].size <= BinSize

C10_LeastFreeSpaceThatFits ==
  \A i \in 1..Len(log) :
    LET r == log[i]
        S == fitting(r.before, r.size)
    IN  S # {} =>
          /\ ~r.fresh
          /\ r.countAfter = r.countBefore
          /\ \E k \in S :
                /\ r.before[k][2] = r.bin
                /\ \A l \in S : r.before[k][1] <= r.before[l][1]

\* a request found two open bins with different free space, both large enough
C10_Witness ==
  \E i \in 1..Len(log) :
    LET r == log[i]
        S == fitting(r.before, r.size)
    IN  /\ ~r.fresh
        /\ \E k, l \in S : r.before[k][1] < r.before[l][1]

\* the packer's multimap right after request i
afterRequest(i) == IF i < Len(log) THEN log[i + 1].before ELSE Bins

\* the entries of a multimap snapshot that belong to the bin
entriesOf(M, Bin) == {k \in 1..Len(M) : M[k][2] = Bin}

\* the free space request i left in the bin it was given
remaining(i) ==
  LET r == log[i]
  IN  IF r.fresh
      THEN (IF r.size % BinSize = 0 THEN 0 ELSE BinSize - (r.size % BinSize))
      ELSE r.before[CHOOSE k \in entriesOf(r.before, r.bin) : TRUE][1] - r.size

\* C11: a request of BinSize or more gets a fresh bin id: the bin counter's
\* value, which no earlier request was given.
C11_BinSizedGetsFreshBin ==
  \A i \in 1..Len(log) :
    log[i].size >= BinSize =>
      /\ log[i].fresh
      /\ log[i].bin = log[i].countBefore
      /\ log[i].countAfter = log[i].countBefore + 1
      /\ \A j \in 1..(i - 1) : log[j].bin # log[i].bin

\* a request of BinSize or more arrived while a bin was open, after another
\* request of exactly BinSize
C11_Witness ==
  \E i, j \in 1..Len(log) :
    /\ i < j
    /\ log[i].size = BinSize
    /\ log[j].size >= BinSize
    /\ log[j].before # <<>>

\* C15: after a request the bin it was given is in the multimap, under its
\* remaining free space, exactly if that is at least MinFnSize; a bin that is
\* not is given to no later request.
C15_AvailableIffMinFnSizeLeft ==
  \A i \in 1..Len(log) :
    LET E == entriesOf(afterRequest(i), log[i].bin)
    IN  /\ E # {} <=> remaining(i) >= MinFnSize
        /\ \A k \in E : afterRequest(i)[k][1] = remaining(i)
        /\ E = {} => \A j \in (i + 1)..Len(log) : log[j].bin # log[i].bin

\* a bin was left with one byte and a later request asked for one byte
C15_Witness ==
  \E i, j \in 1..Len(log) :
    /\ i < j
    /\ remaining(i) = 1
    /\ log[j].size = 1

\* request i is larger than BinSize and no multiple of it
oversizeWithRemainder(i) == log[i].size > BinSize /\ log[i].size % BinSize # 0

\* request j fits in what is left, before it, of the bin given to request i
fitsRemainder(i, j) ==
  \E k \in entriesOf(log[j].before, log[i].bin) : log[j].before[k][1] >= log[j].size

-----------------------------------------------------------------------------
(* FirstFitAlgo at the bin limit of a uni-POT target *)

\* the packer of an AArch64 or ARM module after MaxBinSize - MaxRequests + 1
\* functions of BinSize bytes: each took a fresh bin and left no free space,
\* so no bin is available and BinCount is MaxRequests - 2 short of MaxBinSize
InitFFLimit ==
  /\ Bins = <<>>
  /\ MaxBinSize \in {MaxBinsAArch64, MaxBinsARM}
  /\ BinCount = MaxBinSize - (MaxRequests - 2)
  /\ isUniPOT \in BOOLEAN
  /\ fatal = FALSE
  /\ log = <<>>
  /\ IdleCG
  /\ IdleOpt
  /\ IdleW

SpecFFLimit == InitFFLimit /\ [][NextFF]_vars

\* C29: with uni-POT and a non-zero maximum, no call returns a bin above the
\* maximum and the counter never passes maximum + 1; the fatal error is raised
\* only with the counter above the maximum, by the call that would otherwise
\* have gone on.
C29_NoBinBeyondLimit ==
  (isUniPOT /\ MaxBinSize > 0) =>
    /\ \A i \in 1..Len(log) : log[i].bin <= MaxBinSize
    /\ BinCount <= MaxBinSize + 1
    /\ fatal => BinCount > MaxBinSize

\* the bin with the maximum id was handed out and the next call ended in the
\* fatal error
C29_Witness ==
  /\ isUniPOT
  /\ MaxBinSize > 0
  /\ fatal
  /\ \E i \in 1..Len(log) : log[i].bin = MaxBinSize /\ log[i].fresh

-----------------------------------------------------------------------------
(* CallGraphAlgo: graph construction *)

\* Nodes.at(Id)
at(Id) == Nodes[Id + 1]

NodeIds == {i - 1 : i \in 1..Len(Nodes)}

\* unsigned addition and subtraction
uadd(a, b) == (a + b) % UWrap

usub(a, b) == (a - b + UWrap) % UWrap

\* a node that is not among its own transitive callees
addNode_noSelf(Ns, Size) ==
  LET Id == Len(Ns)
  IN  Append(Ns, [Id |-> Id, Size |-> Size, TraSize |-> 0,
                  Callers |-> {}, TraCallees |-> {}])

\* CallGraphAlgo::addNode: the new node is its own transitive callee
addNode(Ns, Size) ==
  LET Id == Len(Ns)
  IN  Append(Ns, [Id |-> Id, Size |-> Size, TraSize |-> 0,
                  Callers |-> {}, TraCallees |-> {Id}])

\* an edge that hands the caller the callee alone, not what the callee reaches
addEdge_direct(Ns, Caller, Callee) ==
  [Ns EXCEPT ![Callee + 1].Callers = @ \cup {Caller},
             ![Caller + 1].TraCallees = @ \cup {Callee}]

\* CallGraphAlgo::addEdge: the callee records its caller, the caller takes
\* over the callee's transitive callees as they are at this moment
addEdge(Ns, Caller, Callee) ==
  LET To == Ns[Callee + 1]
  IN  [Ns EXCEPT ![Callee + 1].Callers = @ \cup {Caller},
                 ![Caller + 1].TraCallees = @ \cup To.TraCallees]

\* addEdge from one caller to each callee of a set
RECURSIVE addEdges(_, _, _)
addEdges(Ns, Caller, Callees) ==
  IF Callees = {} THEN Ns
  ELSE LET c == CHOOSE x \in Callees : TRUE
       IN  addEdges(addEdge(Ns, Caller, c), Caller, Callees \ {c})

\* binCallGraph, one strongly-connected component: a node of the component's
\* size, and an edge to the node of every pagerando callee outside it.  The
\* components arrive bottom-up, so every callee is an earlier node.
AddSCC(Size, Callees) ==
  /\ cgpc = "build"
  /\ Len(Nodes) < MaxNodes
  /\ Nodes' = addEdges(addNode(Nodes, Size), Len(Nodes), Callees)
  /\ UNCHANGED <<Worklist, cgBins, cgpc, picks>>
  /\ UNCHANGED ffVars
  /\ UNCHANGED notCG

BuildGraph ==
  \E Size \in NodeSizes : \E Callees \in SUBSET NodeIds : AddSCC(Size, Callees)

-----------------------------------------------------------------------------
(* CallGraphAlgo::computeAssignments *)

RECURSIVE SumSizes(_, _)
SumSizes(Ns, S) ==
  IF S = {} THEN 0
  ELSE LET c == CHOOSE x \in S : TRUE
       IN  uadd(Ns[c + 1].Size, SumSizes(Ns, S \ {c}))

\* CallGraphAlgo::computeTransitiveSize
computeTransitiveSize(Ns, N) == uadd(N.TraSize, SumSizes(Ns, N.TraCallees))

\* the head of computeAssignments: transitive sizes, and every node on the
\* worklist
BeginAssignments ==
  /\ cgpc = "build"
  /\ Nodes' = [i \in 1..Len(Nodes) |->
                 [Nodes[i] EXCEPT !.TraSize = computeTransitiveSize(Nodes, Nodes[i])]]
  /\ Worklist' = NodeIds
  /\ cgBins' = <<>>
  /\ cgpc' = "pack"
  /\ UNCHANGED picks
  /\ UNCHANGED ffVars
  /\ UNCHANGED notCG

\* a selection that takes the smallest node of the worklist whether or not a
\* larger one fits
selectNode_smallest(WL) ==
  {n \in WL : \A m \in WL : at(n).TraSize <= at(m).TraSize}

\* CallGraphAlgo::selectNode.  The worklist is sorted by transitive size and the
\* element before upper_bound(BinSize) is taken, the first element when there is
\* none.  std::sort leaves the order of equal elements open, so is the choice
\* among nodes of the selected transitive size.
selectNode(WL) ==
  LET fit == {n \in WL : at(n).TraSize <= BinSize}
  IN  IF fit # {}
      THEN {n \in fit : \A m \in fit : at(m).TraSize <= at(n).TraSize}
      ELSE {n \in WL : \A m \in WL : at(n).TraSize <= at(m).TraSize}

\* a search that stops at the nodes next to the frontier
bfs_oneLevel(Ns, Frontier, Discovered) ==
  Discovered \cup UNION {Ns[n + 1].Callers : n \in Frontier}

\* CallGraphAlgo::bfs with the Callers set as the explored edges: the nodes
\* discovered from Start, each once
RECURSIVE bfs(_, _, _)
bfs(Ns, Frontier, Discovered) ==
  IF Frontier = {} THEN Discovered
  ELSE LET Found == (UNION {Ns[n + 1].Callers : n \in Frontier}) \ Discovered
       IN  bfs(Ns, Found, Discovered \cup Found)

\* std::map::emplace: an existing key keeps its value
mapEmplace(Map, Key, Value) ==
  IF Key \in DOMAIN Map THEN Map
  ELSE [k \in DOMAIN Map \cup {Key} |-> IF k = Key THEN Value ELSE Map[k]]

RECURSIVE mapEmplaceAll(_, _, _)
mapEmplaceAll(Map, Keys, Value) ==
  IF Keys = {} THEN Map
  ELSE LET c == CHOOSE x \in Keys : TRUE
       IN  mapEmplaceAll(mapEmplace(Map, c, Value), Keys \ {c}, Value)

\* an assignment that forgets the callees it removes from the worklist
assignCallees_onlySelf(Map, N, B) == mapEmplace(Map, N.Id, B)

\* assignAndRemoveCallees, the map: N and its transitive callees get bin B
assignCallees(Map, N, B) ==
  mapEmplaceAll(mapEmplace(Map, N.Id, B), N.TraCallees, B)

\* a removal that also takes the callers of N's callees off the worklist
removeCallees_withCallers(WL, N) ==
  {c \in WL : at(c).TraCallees \cap N.TraCallees = {}}

\* assignAndRemoveCallees, the worklist: N's transitive callees leave it
removeCallees(WL, N) == {c \in WL : c \notin N.TraCallees}

\* CallGraphAlgo::adjustCallerSizes: Start and every node found along Callers
\* edges lose Start's transitive size
adjustCallerSizes(Ns, Start) ==
  LET Size    == Start.TraSize
      Visited == bfs(Ns, {Start.Id}, {Start.Id})
  IN  [i \in 1..Len(Ns) |->
         IF Ns[i].Id \in Visited
         THEN [Ns[i] EXCEPT !.TraSize = usub(@, Size)]
         ELSE Ns[i]]

\* one iteration of the loop of computeAssignments
PickNode(n) ==
  /\ cgpc = "pack"
  /\ n \in selectNode(Worklist)
  /\ LET N == at(n)
         r == assignToBin(Bins, BinCount, N.TraSize)
     IN  /\ Bins' = r.Bins
         /\ BinCount' = r.BinCount
         /\ cgBins' = assignCallees(cgBins, N, r.Bin)
         /\ Worklist' = removeCallees(Worklist, N)
         /\ Nodes' = adjustCallerSizes(Nodes, N)
         /\ picks' = Append(picks, [N |-> n, Size |-> N.TraSize, Bin |-> r.Bin,
                                    WL |-> Worklist,
                                    Tra |-> [i \in 1..Len(Nodes) |-> Nodes[i].TraSize],
                                    assigned |-> DOMAIN cgBins])
  /\ UNCHANGED <<MaxBinSize, isUniPOT, fatal, log, cgpc>>
  /\ UNCHANGED notCG

Pick == \E n \in Worklist : PickNode(n)

\* the loop ends with the worklist empty and the map is returned
EndAssignments ==
  /\ cgpc = "pack"
  /\ Worklist = {}
  /\ cgpc' = "done"
  /\ UNCHANGED <<Nodes, Worklist, cgBins, picks>>
  /\ UNCHANGED ffVars
  /\ UNCHANGED notCG

\* CallGraphAlgo as constructed, with the SimpleAlgo it owns
InitCG ==
  /\ Bins = <<>>
  /\ BinCount = 1
  /\ MaxBinSize = 0
  /\ isUniPOT = FALSE
  /\ fatal = FALSE
  /\ log = <<>>
  /\ Nodes = <<>>
  /\ Worklist = {}
  /\ cgBins = <<>>
  /\ cgpc = "build"
  /\ picks = <<>>
  /\ IdleOpt
  /\ IdleW

NextCG == BuildGraph \/ BeginAssignments \/ Pick \/ EndAssignments

SpecCG == InitCG /\ [][NextCG]_vars

-----------------------------------------------------------------------------
(* Claims on the call-graph packer *)

\* C2 as stated: once the packing is done, every node's bin is the bin of each
\* of its transitive callees.
C2_BinSharedWithAllCallees ==
  cgpc = "done" =>
    \A n \in NodeIds : \A c \in at(n).TraCallees : cgBins[c] = cgBins[n]

\* C2: when a node is packed, the node and each of its transitive callees that
\* is still on the worklist get the bin of that pack, and keep it; a callee
\* packed earlier keeps the bin it was given then.
C2_BinSharedWithUnassignedCallees ==
  \A i \in 1..Len(picks) :
    LET p == picks[i]
    IN  /\ p.N \in DOMAIN cgBins
        /\ cgBins[p.N] = p.Bin
        /\ \A c \in at(p.N).TraCallees :
             /\ c \in DOMAIN cgBins
             /\ c \notin p.assigned => cgBins[c] = p.Bin
             /\ c \in p.assigned =>
                  \E j \in 1..(i - 1) :
                    /\ c \in at(picks[j].N).TraCallees
                    /\ cgBins[c] = picks[j].Bin

\* a node packed together with a callee not packed before, after a pack that
\* had already taken another of its callees
C2_Witness ==
  \E i \in 1..Len(picks) :
    LET p == picks[i]
    IN  /\ \E c \in at(p.N).TraCallees : c # p.N /\ c \notin p.assigned
        /\ \E c \in at(p.N).TraCallees : c \in p.assigned

\* the worklist nodes whose transitive size, as it was before pick p, is within
\* the bin size
fits(p) == {n \in p.WL : p.Tra[n + 1] <= BinSize}

C13_OneBinForEveryNode ==
  cgpc = "done" =>
    /\ DOMAIN cgBins = NodeIds
    /\ Cardinality(DOMAIN cgBins) = Len(Nodes)
    /\ \A n \in NodeIds : cgBins[n] \in 1..(BinCount - 1)

\* a returned map for a graph of three nodes or more, in which one pick
\* assigned several nodes and another found a callee already assigned
C13_Witness ==
  /\ cgpc = "done"
  /\ Len(Nodes) >= 3
  /\ \E i \in 1..Len(picks) :
       Cardinality(at(picks[i].N).TraCallees \ picks[i].assigned) >= 2
  /\ \E i \in 1..Len(picks) :
       at(picks[i].N).TraCallees \cap picks[i].assigned # {}

\* the nodes that node n calls: the edges that addEdge recorded at the callee
calleesOf(n) == {c \in NodeIds : n \in at(c).Callers}

\* the nodes reachable along callee edges from a set of nodes, the set included
RECURSIVE reachable(_)
reachable(S) ==
  LET Found == S \cup UNION {calleesOf(n) : n \in S}
  IN  IF Found = S THEN S ELSE reachable(Found)

\* the sum of the self sizes of a set of nodes
RECURSIVE selfSize(_)
selfSize(S) ==
  IF S = {} THEN 0
  ELSE LET c == CHOOSE x \in S : TRUE
       IN  at(c).Size + selfSize(S \ {c})

\* C20: when the loop of computeAssignments starts, the transitive size of
\* every node is the sum of the self sizes of the node and of every node that
\* is reachable from it along callee edges, each counted once.
C20_TransitiveSizeAtLoopStart ==
  (cgpc = "pack" /\ picks = <<>>) =>
    \A n \in NodeIds : at(n).TraSize = selfSize(reachable({n}))

\* the loop starts on a graph in which a node reaches another one both
\* directly and through a third, and a node two edges away
C20_Witness ==
  /\ cgpc = "pack"
  /\ picks = <<>>
  /\ \E n \in NodeIds : \E b \in calleesOf(n) : \E c \in calleesOf(n) :
       /\ b # c
       /\ \E e \in calleesOf(b) \cap calleesOf(c) : e \notin calleesOf(n)

\* C19 as stated: the size that a pick hands to the first-fit packer is the
\* sum of the self sizes of the nodes that this pick newly assigns, that is of
\* the picked node's transitive callees no earlier pick has assigned.
C19_SizeIsNewlyAssigned ==
  \A i \in 1..Len(picks) :
    LET p == picks[i]
    IN  p.Size = selfSize(at(p.N).TraCallees \ p.assigned)

\* the transitive sizes as they were after pick i: those before the next pick,
\* or those of the nodes now
TraAfter(i) ==
  IF i < Len(picks) THEN picks[i + 1].Tra
  ELSE [j \in 1..Len(Nodes) |-> Nodes[j].TraSize]

\* C21: a pick takes the transitive size that the picked node had off the
\* transitive size of the picked node and of every node that reaches it along
\* callee edges, once for each such node however many paths lead to it, and
\* leaves the transitive size of every other node as it was.
C21_TransitiveCallersDecremented ==
  \A i \in 1..Len(picks) :
    LET p == picks[i]
    IN  \A n \in NodeIds :
          TraAfter(i)[n + 1] =
            IF p.N \in reachable({n})
            THEN (p.Tra[n + 1] - p.Size + UWrap) % UWrap
            ELSE p.Tra[n + 1]

\* a pick of a node that a third node reaches along two paths, and a pick of
\* a node that some node with a transitive size left does not reach
C21_Witness ==
  /\ \E i \in 1..Len(picks) :
       LET p == picks[i]
       IN  /\ p.Size > 0
           /\ \E a, b, c \in NodeIds :
                /\ a # b
                /\ p.N \in calleesOf(a) \cap calleesOf(b)
                /\ {a, b} \subseteq calleesOf(c)
                /\ TraAfter(i)[c + 1] = p.Tra[c + 1] - p.Size
  /\ \E i \in 1..Len(picks) :
       \E n \in NodeIds :
         /\ picks[i].N \notin reachable({n})
         /\ picks[i].Tra[n + 1] > 0
         /\ picks[i].Size > 0

\* C22 as stated: whenever a pick takes the picked node's transitive size off
\* the transitive size of a node, that node's transitive size is at least the
\* amount taken off.
C22_NoDecrementBelowZero ==
  \A i \in 1..Len(picks) :
    \A n \in NodeIds :
      picks[i].N \in reachable({n}) => picks[i].Tra[n + 1] >= picks[i].Size

\* computeAssignments runs its loop in one thread to the end: an iteration that
\* can be taken is taken, and the loop is left once the worklist is empty
SpecCGFair == SpecCG /\ WF_vars(Pick) /\ WF_vars(EndAssignments)

\* C27: every iteration of the assignment loop takes at least the picked node
\* off the worklist and adds none, and the loop, once entered, is left
C27_AssignmentLoopTerminates ==
  /\ [][(cgpc = "pack" /\ cgpc' = "pack") =>
          \E n \in selectNode(Worklist) :
            /\ n \notin Worklist'
            /\ Worklist' \subseteq Worklist]_vars
  /\ (cgpc = "pack") ~> (cgpc = "done")

\* the loop ended after iterations that took one node off the worklist and
\* iterations that took several
C27_Witness ==
  /\ cgpc = "done"
  /\ Len(picks) >= 2
  /\ \E i \in 1..Len(picks) : Cardinality(at(picks[i].N).TraCallees) = 1
  /\ \E i \in 1..Len(picks) : Cardinality(at(picks[i].N).TraCallees) >= 2

-----------------------------------------------------------------------------
(* ARM intra-bin optimizer: the machine function *)

\* call sites of the optimized function under SpecO
MaxSites == 2

\* the functions a call site may name: as in pagerando-isel.ll a function
\* outside pagerando, a wrapper, and binned functions, of which "far" lies in
\* another bin than the caller
Callees == {"legacy", "wrapper", "binned", "binned2", "far"}

\* Fn.getFunction()->getSectionPrefix() of the optimized function
CurBinPrefix == ".bin_1"

\* F->getSectionPrefix()
getSectionPrefix(F) ==
  CASE F \in {"binned", "binned2", "wrapper"} -> ".bin_1"
    [] F = "far" -> ".bin_2"
    [] OTHER -> ""

\* subtargets, by the indirect call each selects
Subtargets == {"ARMv5T", "ARMv4T", "Thumb2", "Thumb1"}

isThumb(Sub) == Sub \in {"Thumb2", "Thumb1"}

isThumb2Function(Sub) == Sub = "Thumb2"

\* machine operands: a register definition, a register use, a constant-pool
\* index, a global address
RegDef(r) == [k |-> "def", r |-> r, g |-> ""]

RegUse(r) == [k |-> "use", r |-> r, g |-> ""]

CPI(i) == [k |-> "cpi", r |-> i, g |-> ""]

GlobalAddress(F) == [k |-> "ga", r |-> 0, g |-> F]

\* MachineInstr; predicate and immediate operands are left out
MachineInstr(id, opc, ops) == [id |-> id, opc |-> opc, ops |-> ops]

\* MachineInstr::isCall
isCall(MI) ==
  MI.opc \in {"BLX", "tBLXr", "TCRETURNri", "BX_CALL", "tBX_CALL",
              "BL", "tBL", "TCRETURNdi"}

\* MachineInstr::mayLoad
mayLoad(MI) == MI.opc \in {"LDRi12", "LDRrs", "LDRcp", "t2LDRpci"}

\* ARMConstantPoolConstant: modifier, global and PC label
CPEntry(M, F, Label) == [mod |-> M, gv |-> F, label |-> Label]

\* MachineConstantPool::getConstantPoolIndex: an equal entry is shared, a new
\* one is appended; indices count from 0
getConstantPoolIndex(CP, E) ==
  IF \E i \in 1..Len(CP) : CP[i] = E
  THEN [CP |-> CP, Idx |-> (CHOOSE i \in 1..Len(CP) : CP[i] = E) - 1]
  ELSE [CP |-> Append(CP, E), Idx |-> Len(CP)]

\* the instruction of mf with identity id
instr(mf, id) == CHOOSE MI \in {mf.MIs[i] : i \in 1..Len(mf.MIs)} : MI.id = id

isLive(mf, id) == \E i \in 1..Len(mf.MIs) : mf.MIs[i].id = id

\* BuildMI at the end of the function
emit(mf, opc, ops) ==
  [mf EXCEPT !.MIs = Append(@, MachineInstr(mf.NumMIs, opc, ops)),
             !.NumMIs = @ + 1]

\* MachineRegisterInfo::createVirtualRegister
createVirtualRegister(mf) == [mf EXCEPT !.NumVRegs = @ + 1]

\* what instruction selection leaves at the head of a pagerando function:
\* vreg0 = COPY R9 (the POT), vreg1 = LDRi12 vreg0 (the GOT)
EmptyFunction(Sub, Pagerando) ==
  [Subtarget |-> Sub, isPagerando |-> Pagerando,
   MIs |-> <<MachineInstr(0, "COPY", <<RegDef(0)>>),
             MachineInstr(1, "LDRi12", <<RegDef(1), RegUse(0)>>)>>,
   CP |-> <<>>, NumVRegs |-> 2, NumMIs |-> 2, PICLabelUId |-> 0,
   dangling |-> FALSE, popped |-> <<>>]

\* the indirect call the subtarget selects; a tail call is TCRETURNri
callOpcode(Sub, tail) ==
  IF tail THEN "TCRETURNri"
  ELSE CASE Sub = "ARMv5T" -> "BLX"
         [] Sub = "ARMv4T" -> "BX_CALL"
         [] Sub = "Thumb2" -> "tBLXr"
         [] Sub = "Thumb1" -> "tBX_CALL"

\* a callee reached through POTOFF and BINOFF entries
isBinned(F) == F \in {"binned", "binned2", "far"}

\* the address of a binned callee: POT[potoff] + binoff
selectBinnedAddress(mf, F) ==
  LET p  == getConstantPoolIndex(mf.CP, CPEntry("POTOFF", F, 0))
      b  == getConstantPoolIndex(p.CP, CPEntry("BINOFF", F, 0))
      v  == mf.NumVRegs
      m1 == emit(mf, "LDRi12", <<RegDef(v), CPI(p.Idx)>>)
      m2 == emit(m1, "LDRrs", <<RegDef(v + 1), RegUse(0), RegUse(v)>>)
      m3 == emit(m2, "LDRi12", <<RegDef(v + 2), CPI(b.Idx)>>)
      m4 == emit(m3, "ADDrr", <<RegDef(v + 3), RegUse(v + 1), RegUse(v + 2)>>)
  IN  [m4 EXCEPT !.CP = b.CP, !.NumVRegs = v + 4]

\* the address of any other callee: GOT[got_brel]
selectGOTAddress(mf, F) ==
  LET g  == getConstantPoolIndex(mf.CP, CPEntry("GOT_BREL", F, 0))
      v  == mf.NumVRegs
      m1 == emit(mf, "LDRi12", <<RegDef(v), CPI(g.Idx)>>)
      m2 == emit(m1, "LDRrs", <<RegDef(v + 1), RegUse(1), RegUse(v)>>)
  IN  [m2 EXCEPT !.CP = g.CP, !.NumVRegs = v + 2]

\* one call site.  A site that shares takes the address register of the call
\* before it, as common-subexpression elimination leaves two calls of one
\* callee in one block.
selectCall(mf, site) ==
  LET prev == mf.MIs[Len(mf.MIs)]
      opc  == callOpcode(mf.Subtarget, site.tail)
  IN  IF site.share
      THEN emit(mf, opc, <<RegUse(prev.ops[1].r)>>)
      ELSE LET a == IF isBinned(site.callee)
                    THEN selectBinnedAddress(mf, site.callee)
                    ELSE selectGOTAddress(mf, site.callee)
           IN  emit(a, opc, <<RegUse(a.NumVRegs - 1)>>)

RECURSIVE selectCalls(_, _)
selectCalls(mf, sites) ==
  IF sites = <<>> THEN mf
  ELSE selectCalls(selectCall(mf, Head(sites)), Tail(sites))

Sites == [callee : Callees, tail : BOOLEAN, share : BOOLEAN]

\* the site lists instruction selection can produce: sharing needs a call of
\* the same callee just before, a tail call ends the function, and Thumb1
\* has no tail calls
SiteLists(Sub) ==
  {ss \in UNION {[1..n -> Sites] : n \in 1..MaxSites} :
     \A i \in 1..Len(ss) :
       /\ ss[i].share => i > 1 /\ ss[i - 1].callee = ss[i].callee
       /\ ss[i].tail => i = Len(ss) /\ Sub # "Thumb1"}

-----------------------------------------------------------------------------
(* ARM intra-bin optimizer: the pass *)

\* isIntraBin that takes a function of any bin
isIntraBin_anyBin(E, BinPrefix) == E.mod \in {"POTOFF", "BINOFF"}

\* isIntraBin that looks at POTOFF entries only
isIntraBin_potoffOnly(E, BinPrefix) ==
  E.mod = "POTOFF" /\ getSectionPrefix(E.gv) = BinPrefix

\* isIntraBin
isIntraBin(E, BinPrefix) ==
  E.mod \in {"POTOFF", "BINOFF"} /\ getSectionPrefix(E.gv) = BinPrefix

\* getCallee
getCallee(E) == E.gv

\* getCPIndex
getCPIndex(MI) ==
  IF mayLoad(MI) /\ Len(MI.ops) > 1 /\ MI.ops[2].k = "cpi"
  THEN MI.ops[2].r
  ELSE -1

\* isBXCall
isBXCall(Opc) == Opc \in {"BX_CALL", "tBX_CALL"}

\* toDirectCall
toDirectCall(Opc) ==
  CASE Opc = "TCRETURNri" -> "TCRETURNdi"
    [] Opc = "BLX" -> "BL"
    [] Opc = "tBLXr" -> "tBL"

\* position of the live instruction id
indexOf(mf, id) == CHOOSE i \in 1..Len(mf.MIs) : mf.MIs[i].id = id

\* MachineInstr::eraseFromParent
eraseFromParent(mf, id) ==
  LET i == indexOf(mf, id)
  IN  [mf EXCEPT !.MIs = SubSeq(@, 1, i - 1) \o SubSeq(@, i + 1, Len(@))]

\* BuildMI before the instruction id
insertBefore(mf, id, opc, ops) ==
  LET i == indexOf(mf, id)
  IN  [mf EXCEPT !.MIs = SubSeq(@, 1, i - 1)
                         \o <<MachineInstr(mf.NumMIs, opc, ops)>>
                         \o SubSeq(@, i, Len(@)),
                 !.NumMIs = @ + 1]

\* use lists that name every user twice
defUsers_twice(mf, MI) ==
  LET defs == {MI.ops[j].r : j \in {j \in 1..Len(MI.ops) : MI.ops[j].k = "def"}}
      uses(U) == \E j \in 1..Len(U.ops) : U.ops[j].k = "use" /\ U.ops[j].r \in defs
  IN  SelectSeq(mf.MIs, uses) \o SelectSeq(mf.MIs, uses)

\* MachineRegisterInfo::use_instructions of the registers MI defines, in
\* program order
defUsers(mf, MI) ==
  LET defs == {MI.ops[j].r : j \in {j \in 1..Len(MI.ops) : MI.ops[j].k = "def"}}
      uses(U) == \E j \in 1..Len(U.ops) : U.ops[j].k = "use" /\ U.ops[j].r \in defs
  IN  SelectSeq(mf.MIs, uses)

RECURSIVE ids(_)
ids(MIs) == IF MIs = <<>> THEN <<>> ELSE <<Head(MIs).id>> \o ids(Tail(MIs))

\* a rewrite that makes no entry of its own and loads from the first entry
\* of the pool
materializePCRelative_firstEntry(mf, MI, Callee) ==
  LET Label   == mf.PICLabelUId
      c       == [CP |-> mf.CP, Idx |-> 0]
      TempReg == mf.NumVRegs
      DestReg == mf.NumVRegs + 1
      LdOpc   == IF isThumb2Function(mf.Subtarget) THEN "t2LDRpci" ELSE "LDRcp"
      AddOpc  == IF isThumb(mf.Subtarget) THEN "tPICADD" ELSE "PICADD"
      m0      == [mf EXCEPT !.CP = c.CP, !.PICLabelUId = @ + 1, !.NumVRegs = @ + 2]
      m1      == insertBefore(m0, MI.id, LdOpc, <<RegDef(TempReg), CPI(c.Idx)>>)
      m2      == insertBefore(m1, MI.id, AddOpc, <<RegDef(DestReg), RegUse(TempReg)>>)
      i       == indexOf(m2, MI.id)
  IN  [m2 EXCEPT !.MIs[i].ops[1].r = DestReg]

\* the BX_CALL branch of optimizeCall: the register operand becomes a
\* PC-relative address loaded from a new constant-pool entry
materializePCRelative(mf, MI, Callee) ==
  LET Label   == mf.PICLabelUId
      c       == getConstantPoolIndex(mf.CP, CPEntry("no_modifier", Callee, Label))
      TempReg == mf.NumVRegs
      DestReg == mf.NumVRegs + 1
      LdOpc   == IF isThumb2Function(mf.Subtarget) THEN "t2LDRpci" ELSE "LDRcp"
      AddOpc  == IF isThumb(mf.Subtarget) THEN "tPICADD" ELSE "PICADD"
      m0      == [mf EXCEPT !.CP = c.CP, !.PICLabelUId = @ + 1, !.NumVRegs = @ + 2]
      m1      == insertBefore(m0, MI.id, LdOpc, <<RegDef(TempReg), CPI(c.Idx)>>)
      m2      == insertBefore(m1, MI.id, AddOpc, <<RegDef(DestReg), RegUse(TempReg)>>)
      i       == indexOf(m2, MI.id)
  IN  [m2 EXCEPT !.MIs[i].ops[1].r = DestReg]

\* replaceWithDirectCall
replaceWithDirectCall(mf, MI, Callee) ==
  LET Opc == toDirectCall(MI.opc)
      m1  == insertBefore(mf, MI.id, Opc,
                          <<GlobalAddress(Callee)>> \o SubSeq(MI.ops, 2, Len(MI.ops)))
  IN  eraseFromParent(m1, MI.id)

\* optimizeCall: Queue is popped at its back.  A queued instruction that was
\* erased in the meantime is a dangling pointer; the function is marked and
\* the entry dropped.  popped is the history of the instructions popped.
RECURSIVE optimizeCall(_, _, _)
optimizeCall(mf, Queue, Callee) ==
  IF Queue = <<>> THEN mf
  ELSE LET id   == Queue[Len(Queue)]
           rest == SubSeq(Queue, 1, Len(Queue) - 1)
           m0   == [mf EXCEPT !.popped = Append(@, id)]
       IN  IF ~isLive(mf, id)
           THEN optimizeCall([m0 EXCEPT !.dangling = TRUE], rest, Callee)
           ELSE LET MI == instr(mf, id)
                IN  IF ~isCall(MI)
                    THEN optimizeCall(eraseFromParent(m0, id),
                                      rest \o ids(defUsers(mf, MI)), Callee)
                    ELSE IF isBXCall(MI.opc)
                    THEN optimizeCall(materializePCRelative(m0, MI, Callee), rest, Callee)
                    ELSE optimizeCall(replaceWithDirectCall(m0, MI, Callee), rest, Callee)

\* runOnMachineFunction up to the loop over Uses: nothing to do for a function
\* outside pagerando or without intra-bin entries
CollectUses ==
  /\ optpc = "start"
  /\ LET W == {i \in 0..(Len(MF.CP) - 1) : isIntraBin(MF.CP[i + 1], CurBinPrefix)}
         U == SelectSeq(MF.MIs, LAMBDA MI : getCPIndex(MI) \in W)
     IN  IF ~MF.isPagerando \/ W = {}
         THEN /\ optpc' = "done"
              /\ UNCHANGED <<Workset, Uses>>
         ELSE /\ optpc' = "optimize"
              /\ Workset' = W
              /\ Uses' = ids(U)
  /\ UNCHANGED <<MF, MF0, assertFailed>>
  /\ UNCHANGED notOpt

\* one iteration of the loop over Uses
OptimizeUse ==
  /\ optpc = "optimize"
  /\ Uses # <<>>
  /\ LET id == Head(Uses)
     IN  IF ~isLive(MF, id)
         THEN MF' = [MF EXCEPT !.dangling = TRUE]
         ELSE LET Index  == getCPIndex(instr(MF, id))
                  Callee == getCallee(MF.CP[Index + 1])
              IN  MF' = optimizeCall(MF, <<id>>, Callee)
  /\ Uses' = Tail(Uses)
  /\ UNCHANGED <<MF0, Workset, optpc, assertFailed>>
  /\ UNCHANGED notOpt

\* a mapping that keeps the old index of every surviving entry
Indices_unchanged(Size, W, Old) == IF Old \in W THEN -1 ELSE Old

\* deleteCPEntries, the mapping Indices[Old] -> New
Indices(Size, W, Old) ==
  IF Old \in W THEN -1
  ELSE Cardinality({o \in 0..(Old - 1) : o \notin W})

\* deleteCPEntries, the update of the explicit uses
remapOperands(MI, Size, W) ==
  [MI EXCEPT !.ops = [j \in 1..Len(MI.ops) |->
      IF MI.ops[j].k = "cpi"
      THEN [MI.ops[j] EXCEPT !.r = Indices(Size, W, MI.ops[j].r)]
      ELSE MI.ops[j]]]

\* an erasure in ascending index order that does not account for the entries
\* already erased
RECURSIVE eraseForward(_, _)
eraseForward(S, W) ==
  IF W = {} THEN S
  ELSE LET w == CHOOSE x \in W : \A y \in W : x <= y
       IN  eraseForward(IF w < Len(S)
                        THEN SubSeq(S, 1, w) \o SubSeq(S, w + 2, Len(S))
                        ELSE S,
                        W \ {w})

eraseIndices_forward(CP, W) ==
  eraseForward([i \in 1..Len(CP) |-> [e |-> CP[i], old |-> i - 1]], W)

\* deleteCPEntries, the erasure
eraseIndices(CP, W) ==
  SelectSeq([i \in 1..Len(CP) |-> [e |-> CP[i], old |-> i - 1]],
            LAMBDA x : x.old \notin W)

RECURSIVE entries(_)
entries(S) == IF S = <<>> THEN <<>> ELSE <<Head(S).e>> \o entries(Tail(S))

\* deleteCPEntries, after the last use was optimized; the function returns
DeleteCPEntries ==
  /\ optpc = "optimize"
  /\ Uses = <<>>
  /\ LET Size == Len(MF.CP)
     IN  /\ MF' = [MF EXCEPT
                     !.MIs = [i \in 1..Len(MF.MIs) |-> remapOperands(MF.MIs[i], Size, Workset)],
                     !.CP = entries(eraseIndices(MF.CP, Workset))]
         /\ assertFailed' =
              \E i \in 1..Len(MF.MIs) : \E j \in 1..Len(MF.MIs[i].ops) :
                /\ MF.MIs[i].ops[j].k = "cpi"
                /\ Indices(Size, Workset, MF.MIs[i].ops[j].r) = -1
  /\ optpc' = "done"
  /\ UNCHANGED <<MF0, Workset, Uses>>
  /\ UNCHANGED notOpt

\* the machine function as instruction selection hands it to the pass
InitOpt ==
  /\ Bins = <<>>
  /\ BinCount = 1
  /\ MaxBinSize = 0
  /\ isUniPOT = FALSE
  /\ fatal = FALSE
  /\ log = <<>>
  /\ IdleCG
  /\ IdleW
  /\ \E Sub \in Subtargets : \E Pagerando \in BOOLEAN : \E ss \in SiteLists(Sub) :
       MF = selectCalls(EmptyFunction(Sub, Pagerando), ss)
  /\ MF0 = MF
  /\ Workset = {}
  /\ Uses = <<>>
  /\ optpc = "start"
  /\ assertFailed = FALSE

NextOpt == CollectUses \/ OptimizeUse \/ DeleteCPEntries

SpecO == InitOpt /\ [][NextOpt]_vars

-----------------------------------------------------------------------------
(* Claims on the intra-bin optimizer *)

\* the call instructions of mf in program order: the k-th is call site k
calls(mf) == SelectSeq(mf.MIs, isCall)

\* the instruction of mf that defines register r
defOf(mf, r) ==
  CHOOSE MI \in {mf.MIs[i] : i \in 1..Len(mf.MIs)} :
    \E j \in 1..Len(MI.ops) : MI.ops[j].k = "def" /\ MI.ops[j].r = r

\* the constant-pool entries loaded into the operands of the instruction that
\* computes the address of an indirect call
addressEntries(mf, Call) ==
  LET A == defOf(mf, Call.ops[1].r)
  IN  {mf.CP[getCPIndex(defOf(mf, A.ops[j].r)) + 1] :
         j \in {j \in 1..Len(A.ops) :
                  A.ops[j].k = "use" /\ getCPIndex(defOf(mf, A.ops[j].r)) >= 0}}

\* site k of the selected function calls, through POTOFF/BINOFF, a function of
\* the caller's own bin
sameBinSite(k) ==
  \E E \in addressEntries(MF0, calls(MF0)[k]) :
    E.mod = "BINOFF" /\ getSectionPrefix(E.gv) = CurBinPrefix

siteCallee(k) ==
  (CHOOSE E \in addressEntries(MF0, calls(MF0)[k]) : E.mod = "BINOFF").gv

\* no instruction refers to a POTOFF/BINOFF entry of a function in the same bin
noSameBinReference ==
  \A i \in 1..Len(MF.MIs) : \A j \in 1..Len(MF.MIs[i].ops) :
    LET Op == MF.MIs[i].ops[j]
    IN  Op.k = "cpi" /\ Op.r >= 0 /\ Op.r < Len(MF.CP) =>
          ~(/\ MF.CP[Op.r + 1].mod \in {"POTOFF", "BINOFF"}
            /\ getSectionPrefix(MF.CP[Op.r + 1].gv) = CurBinPrefix)

isDirectCallTo(MI, F) ==
  MI.opc \in {"BL", "tBL", "TCRETURNdi"} /\ MI.ops[1] = GlobalAddress(F)

\* C3 as stated: after the pass over a pagerando function no instruction refers
\* to a POTOFF/BINOFF entry of a same-bin function, and every call site that
\* did is a direct call to its callee.
C3_AllSameBinSitesDirect ==
  optpc = "done" /\ MF.isPagerando =>
    /\ noSameBinReference
    /\ \A k \in 1..Len(calls(MF0)) :
         sameBinSite(k) => isDirectCallTo(calls(MF)[k], siteCallee(k))

\* the call still goes through a register, which now holds a PC-relative
\* address loaded from a constant-pool entry of F without modifier
isPCRelativeCallTo(MI, F) ==
  /\ isBXCall(MI.opc)
  /\ LET Add == defOf(MF, MI.ops[1].r)
     IN  /\ Add.opc \in {"PICADD", "tPICADD"}
         /\ LET Ld == defOf(MF, Add.ops[2].r)
            IN  /\ getCPIndex(Ld) >= 0
                /\ getCPIndex(Ld) < Len(MF.CP)
                /\ MF.CP[getCPIndex(Ld) + 1].mod = "no_modifier"
                /\ MF.CP[getCPIndex(Ld) + 1].gv = F

\* C3: after the pass over a pagerando function no instruction refers to a
\* POTOFF/BINOFF entry of a same-bin function; a same-bin call site selected as
\* BLX, tBLXr or TCRETURNri is a direct call (BL, tBL, TCRETURNdi) to its
\* callee, and one selected as BX_CALL or tBX_CALL is still that indirect call,
\* on a PC-relative address of the callee.
C3_SameBinSitesDirectOrPCRelative ==
  optpc = "done" /\ MF.isPagerando =>
    /\ noSameBinReference
    /\ \A k \in 1..Len(calls(MF0)) :
         sameBinSite(k) =>
           LET Old == calls(MF0)[k]
               New == calls(MF)[k]
           IN  IF isBXCall(Old.opc)
               THEN New.opc = Old.opc /\ isPCRelativeCallTo(New, siteCallee(k))
               ELSE New.opc = toDirectCall(Old.opc)
                    /\ isDirectCallTo(New, siteCallee(k))

\* a pagerando function was optimized that had a same-bin BX_CALL site and a
\* same-bin site of another call opcode
C3_Witness ==
  /\ optpc = "done"
  /\ MF.isPagerando
  /\ \E k \in 1..Len(calls(MF0)) : sameBinSite(k) /\ isBXCall(calls(MF0)[k].opc)
  /\ \E k \in 1..Len(calls(MF0)) : sameBinSite(k) /\ ~isBXCall(calls(MF0)[k].opc)

\* C4: after the clean-up every constant-pool index operand lies inside the
\* constant pool and names the entry it named before the clean-up, and the
\* assertion on a use of a deleted entry did not fail.
C4_UsesPointToSurvivingEntries ==
  optpc = "done" =>
    /\ ~assertFailed
    /\ \A i \in 1..Len(MF.MIs) : \A j \in 1..Len(MF.MIs[i].ops) :
         LET MI == MF.MIs[i]
         IN  MI.ops[j].k = "cpi" =>
               /\ MI.ops[j].r >= 0
               /\ MI.ops[j].r < Len(MF.CP)
               /\ isLive(MF0, MI.id) =>
                    MF.CP[MI.ops[j].r + 1] = MF0.CP[instr(MF0, MI.id).ops[j].r + 1]

\* entries were deleted and a surviving use was renumbered
C4_Witness ==
  /\ optpc = "done"
  /\ Len(MF.CP) < Len(MF0.CP)
  /\ \E i \in 1..Len(MF.MIs) : \E j \in 1..Len(MF.MIs[i].ops) :
       LET MI == MF.MIs[i]
       IN  /\ MI.ops[j].k = "cpi"
           /\ isLive(MF0, MI.id)
           /\ instr(MF0, MI.id).ops[j].r # MI.ops[j].r

\* the instructions popped from the queue of optimizeCall so far
poppedIds == {MF.popped[i] : i \in 1..Len(MF.popped)}

surviving(CP, W) == {o \in 0..(Len(CP) - 1) : o \notin W}

\* C24: the step of deleteCPEntries leaves as many entries as were not in the
\* workset, puts the entry that had the n-th smallest surviving index at index
\* n - 1, and gives every constant-pool operand an index at which the entry is
\* the one the operand had before; no operand had an index of the workset.
C24_CleanupRenumbersContiguously ==
  [][(optpc = "optimize" /\ optpc' = "done") =>
       LET surv == surviving(MF.CP, Workset)
       IN  /\ Len(MF'.CP) = Cardinality(surv)
           /\ \A o \in surv :
                MF'.CP[Cardinality({s \in surv : s < o}) + 1] = MF.CP[o + 1]
           /\ Len(MF'.MIs) = Len(MF.MIs)
           /\ \A i \in 1..Len(MF.MIs) : \A j \in 1..Len(MF.MIs[i].ops) :
                MF.MIs[i].ops[j].k = "cpi" =>
                  /\ MF.MIs[i].ops[j].r \in surv
                  /\ MF'.MIs[i].ops[j].r \in 0..(Len(MF'.CP) - 1)
                  /\ MF'.CP[MF'.MIs[i].ops[j].r + 1] = MF.CP[MF.MIs[i].ops[j].r + 1]
           /\ ~assertFailed']_vars

\* the cleanup has run on a constant pool in which an entry of the workset
\* lay between two surviving entries, the later one in use
C24_Witness ==
  /\ optpc = "done"
  /\ \E w \in Workset : \E a \in 0..(w - 1) : a \notin Workset
  /\ Len(MF.CP) >= 2
  /\ \E i \in 1..Len(MF.MIs) : \E j \in 1..Len(MF.MIs[i].ops) :
       /\ MF.MIs[i].ops[j].k = "cpi"
       /\ MF.MIs[i].ops[j].r = Len(MF.CP) - 1
       /\ MF.MIs[i].ops[j].r >= 1

\* the registers that instruction MI uses
usedRegs(MI) == {MI.ops[j].r : j \in {j \in 1..Len(MI.ops) : MI.ops[j].k = "use"}}

\* the instructions of mf that the instructions S depend on through the
\* registers they use, S included
RECURSIVE producers(_, _)
producers(mf, S) ==
  LET Found == S \cup {defOf(mf, r).id : r \in UNION {usedRegs(instr(mf, id)) : id \in S}}
  IN  IF Found = S THEN S ELSE producers(mf, Found)

\* instruction id is in the function as it was selected, but for the numbers
\* of its constant-pool operands, which name the entries they named
untouched(id) ==
  /\ isLive(MF, id)
  /\ LET Old == instr(MF0, id)
         New == instr(MF, id)
     IN  /\ New.opc = Old.opc
         /\ Len(New.ops) = Len(Old.ops)
         /\ \A j \in 1..Len(Old.ops) :
              IF Old.ops[j].k = "cpi"
              THEN /\ New.ops[j].k = "cpi"
                   /\ New.ops[j].r \in 0..(Len(MF.CP) - 1)
                   /\ MF.CP[New.ops[j].r + 1] = MF0.CP[Old.ops[j].r + 1]
              ELSE New.ops[j] = Old.ops[j]

\* C25: a call site whose callee is not reached through POTOFF/BINOFF entries
\* of a function of the caller's bin - a function of another bin, a wrapper, a
\* function outside pagerando - stays the indirect call it was selected as, on
\* the same register, and every instruction that computes its address stays.
C25_OtherSitesKeepIndirectCall ==
  \A k \in 1..Len(calls(MF0)) :
    LET Old == calls(MF0)[k]
    IN  ~(\E E \in addressEntries(MF0, Old) :
            E.mod \in {"POTOFF", "BINOFF"} /\ getSectionPrefix(E.gv) = CurBinPrefix)
        => /\ \A id \in producers(MF0, {Old.id}) : untouched(id)
           /\ instr(MF, Old.id).opc \in {"BLX", "tBLXr", "TCRETURNri", "BX_CALL", "tBX_CALL"}

\* the pass has rewritten a call of a function of the caller's bin next to a
\* call of a function of another bin
C25_Witness ==
  /\ optpc = "done"
  /\ Workset # {}
  /\ \E k \in 1..Len(calls(MF0)) :
       /\ \E E \in addressEntries(MF0, calls(MF0)[k]) :
            E.mod = "BINOFF" /\ getSectionPrefix(E.gv) # CurBinPrefix
       /\ untouched(calls(MF0)[k].id)
  /\ \E k \in 1..Len(calls(MF0)) : ~isLive(MF, calls(MF0)[k].id)

\* the loads optimizeCall inserted: instructions that were not in the function
\* before the pass and read a constant-pool entry
newLoads(mf) ==
  {i \in 1..Len(mf.MIs) : ~isLive(MF0, mf.MIs[i].id) /\ getCPIndex(mf.MIs[i]) >= 0}

\* C30: in the step that deletes the constant-pool entries of the working set,
\* every load inserted for a BX_CALL or tBX_CALL site refers beforehand to an
\* entry without modifier that is not in the working set, and afterwards to an
\* index inside the pool that holds that same entry; the assertion on a use
\* of a deleted entry does not fail.
C30_PCRelativeEntrySurvivesCleanup ==
  [][(optpc = "optimize" /\ optpc' = "done") =>
       /\ ~assertFailed'
       /\ \A i \in newLoads(MF) :
            LET Old == getCPIndex(MF.MIs[i])
                New == getCPIndex(MF'.MIs[i])
            IN  /\ Old \notin Workset
                /\ Old < Len(MF.CP)
                /\ MF.CP[Old + 1].mod = "no_modifier"
                /\ MF'.MIs[i].id = MF.MIs[i].id
                /\ New >= 0
                /\ New < Len(MF'.CP)
                /\ MF'.CP[New + 1] = MF.CP[Old + 1]]_vars

\* two sites were rewritten on the BX path; their loads read different
\* entries, both at indices that held working-set entries before the clean-up
C30_Witness ==
  /\ optpc = "done"
  /\ \E i, j \in newLoads(MF) :
       /\ getCPIndex(MF.MIs[i]) # getCPIndex(MF.MIs[j])
       /\ getCPIndex(MF.MIs[i]) \in Workset
       /\ getCPIndex(MF.MIs[j]) \in Workset
       /\ MF.CP[getCPIndex(MF.MIs[i]) + 1].mod = "no_modifier"
       /\ MF.CP[getCPIndex(MF.MIs[j]) + 1].mod = "no_modifier"

-----------------------------------------------------------------------------
(* Entry-wrapper pass: the module *)

\* uses of the function under test in the module handed to the pass
MaxUsesPerFn == 2

OrigSuffix == "$$orig"

OrigVASuffix == "$$origva"

\* the va_list argument of a rewritten function, as an operand
VAListArg == 0

\* instructions, as far as the pass looks at them: op and one or two operands
\* (an alloca by its number, a function by its id)
Inst(op, a, b) == [op |-> op, a |-> a, b |-> b]

\* the body of a function with n va_start calls, each on its own va_list as in
\* varargs.ll: allocas, va_starts, a va_arg on the first list, va_ends, ret
vaBody(n) ==
  [i \in 1..n |-> Inst("alloca", i, -1)]
  \o [i \in 1..n |-> Inst("va_start", i, -1)]
  \o (IF n > 0 THEN <<Inst("va_arg", 1, -1)>> ELSE <<>>)
  \o [i \in 1..n |-> Inst("va_end", i, -1)]
  \o <<Inst("ret", -1, -1)>>

\* llvm::Function, as far as the pass looks at it
Fn(id, name, linkage, visibility, variadic, attrs, skip, body) ==
  [id |-> id, name |-> name, linkage |-> linkage, visibility |-> visibility,
   isVarArg |-> variadic, vaListParam |-> FALSE, attrs |-> attrs,
   skip |-> skip, section |-> "", body |-> body]

\* a use of a function: the kind of its user, the identity of the user when
\* it is a constant, and whether all uses of a bitcast are callee operands
UseKinds ==
  {[kind |-> "callee", cid |-> 0, allCalls |-> FALSE],
   [kind |-> "operand", cid |-> 0, allCalls |-> FALSE],
   [kind |-> "gvinit", cid |-> 0, allCalls |-> FALSE],
   [kind |-> "alias", cid |-> 1, allCalls |-> FALSE],
   [kind |-> "const", cid |-> 2, allCalls |-> FALSE],
   [kind |-> "const2", cid |-> 2, allCalls |-> FALSE],
   [kind |-> "bitcast", cid |-> 3, allCalls |-> TRUE],
   [kind |-> "bitcast", cid |-> 4, allCalls |-> FALSE],
   [kind |-> "blockaddress", cid |-> 5, allCalls |-> FALSE],
   [kind |-> "personality", cid |-> 0, allCalls |-> FALSE]}

\* the use lists of the function under test; the second operand of a constant
\* comes with the first
UseSets ==
  {S \in SUBSET UseKinds :
     /\ Cardinality(S) <= MaxUsesPerFn
     /\ (\E U \in S : U.kind = "const2") => (\E U \in S : U.kind = "const")}

RECURSIVE useList(_, _, _)
useList(S, val, n) ==
  IF S = {} THEN <<>>
  ELSE LET U == CHOOSE x \in S : TRUE
       IN  <<[u |-> n, kind |-> (IF U.kind = "const2" THEN "const" ELSE U.kind), cid |-> U.cid, allCalls |-> U.allCalls,
              val |-> val]>> \o useList(S \ {U}, val, n + 1)

\* linkage and visibility: a local function has default visibility
LinkageAndVisibility ==
  {<<"internal", "default">>, <<"external", "default">>,
   <<"external", "hidden">>, <<"external", "protected">>}

\* function attributes besides pagerando that createWrapper tells apart:
\* alwaysinline, noinline and optsize are removed, cold is kept, ssp is kept
\* for a variadic function only
ExtraAttrs == {{}, {"alwaysinline", "cold", "ssp"}}

\* the functions under test: id 1, named "f"
TestFns ==
  {Fn(1, "f", lv[1], lv[2], va >= 0, ex \cup pr, sk, vaBody(IF va >= 0 THEN va ELSE 0)) :
     lv \in LinkageAndVisibility, va \in -1..2, ex \in ExtraAttrs,
     pr \in {{}, {"pagerando"}}, sk \in BOOLEAN}

\* a second function, id 2, named "user" as in calls.ll
UserFns ==
  {Fn(2, "user", "internal", "default", FALSE, {}, FALSE, <<Inst("ret", -1, -1)>>),
   Fn(2, "user", "external", "default", FALSE, {"pagerando"}, FALSE, <<Inst("ret", -1, -1)>>)}

-----------------------------------------------------------------------------
(* Entry-wrapper pass: the pass *)

\* the function of module m with identity id
getFn(m, id) == CHOOSE F \in {m.Fns[i] : i \in 1..Len(m.Fns)} : F.id = id

fnIndex(m, id) == CHOOSE i \in 1..Len(m.Fns) : m.Fns[i].id = id

hasLocalLinkage(F) == F.linkage = "internal"

hasProtectedVisibility(F) == F.visibility = "protected"

\* skipFunction: declarations, available_externally, comdat, trivial, naked and
\* thunk functions, all behind the function's skip flag
skipFunction(F) == F.skip

\* skipFunctionUse: the callee operand of a call, a block address, the
\* personality of a function, a bitcast all of whose uses are skipped
skipFunctionUse(U) ==
  \/ U.kind = "callee"
  \/ U.kind = "blockaddress"
  \/ U.kind = "personality"
  \/ U.kind = "bitcast" /\ U.allCalls

\* F->uses()
usesOf(m, id) == SelectSeq(m.Uses, LAMBDA U : U.val = id)

\* the loop of processFunction
addressUses(m, id) == SelectSeq(usesOf(m, id), LAMBDA U : ~skipFunctionUse(U))

\* Use::set, GlobalVariable::setInitializer, GlobalAlias::setAliasee
setUse(Us, u, To) == [i \in 1..Len(Us) |-> IF Us[i].u = u THEN [Us[i] EXCEPT !.val = To] ELSE Us[i]]

\* an operand change that rewrites the one operand it was called for
handleOperandChange_one(Us, U, From, To) == setUse(Us, U.u, To)

\* Constant::handleOperandChange: every operand of the constant that is From
\* becomes To
handleOperandChange(Us, U, From, To) ==
  [i \in 1..Len(Us) |->
     IF Us[i].cid = U.cid /\ Us[i].val = From THEN [Us[i] EXCEPT !.val = To] ELSE Us[i]]

\* a replacement that leaves callee operands and the other skipped uses alone
replaceAllUsesWith_addressOnly(Us, From, To) ==
  [i \in 1..Len(Us) |->
     IF Us[i].val = From /\ ~skipFunctionUse(Us[i])
     THEN [Us[i] EXCEPT !.val = To] ELSE Us[i]]

\* Value::replaceAllUsesWith
replaceAllUsesWith(Us, From, To) ==
  [i \in 1..Len(Us) |-> IF Us[i].val = From THEN [Us[i] EXCEPT !.val = To] ELSE Us[i]]

\* a loop that stops after the first address-taken use
replaceAddressUses_first(Us, AddressUses, Constants, From, To) ==
  IF AddressUses = <<>> THEN Us ELSE setUse(Us, Head(AddressUses).u, To)

\* the loop of replaceWithWrapper over AddressUses; Constants holds the
\* constants whose operands were changed already
RECURSIVE replaceAddressUses(_, _, _, _, _)
replaceAddressUses(Us, AddressUses, Constants, From, To) ==
  IF AddressUses = <<>> THEN Us
  ELSE LET u    == Head(AddressUses).u
           U    == CHOOSE x \in {Us[i] : i \in 1..Len(Us)} : x.u = u
           rest == Tail(AddressUses)
       IN  IF U.kind = "gvinit"
           THEN replaceAddressUses(setUse(Us, u, To), rest, Constants, From, To)
           ELSE IF U.cid # 0
           THEN IF U.cid \in Constants
                THEN replaceAddressUses(Us, rest, Constants, From, To)
                ELSE IF U.kind = "alias"
                THEN replaceAddressUses(setUse(Us, u, To), rest,
                                        Constants \cup {U.cid}, From, To)
                ELSE replaceAddressUses(handleOperandChange(Us, U, From, To), rest,
                                        Constants \cup {U.cid}, From, To)
           ELSE replaceAddressUses(setUse(Us, u, To), rest, Constants, From, To)

\* replaceWithWrapper
replaceWithWrapper(m, Fid, Wid, AddressUses) ==
  LET F == getFn(m, Fid)
      i == fnIndex(m, Fid)
  IN  IF F.isVarArg \/ (~hasLocalLinkage(F) /\ ~hasProtectedVisibility(F))
      THEN [m EXCEPT !.Uses = replaceAllUsesWith(@, Fid, Wid),
                     !.Fns[i].visibility =
                        IF ~hasLocalLinkage(F) THEN "protected" ELSE @]
      ELSE [m EXCEPT !.Uses = replaceAddressUses(@, AddressUses, {}, Fid, Wid)]

\* a wrapper that inherits every attribute of F
wrapperAttrs_all(F) == F.attrs \cup {"noinline", "optsize"}

\* createWrapper, the attributes: those of F without the ones that must not be
\* inherited, and noinline and optsize
wrapperAttrs(F) ==
  (F.attrs \ ({"alwaysinline", "noinline", "optsize", "pagerando"}
              \cup (IF F.isVarArg THEN {} ELSE {"ssp"})))
  \cup {"noinline", "optsize"}

\* a wrapper put at the end of the function list
createWrapper_pushBack(m, Fid, AddressUses) ==
  LET F            == getFn(m, Fid)
      i            == fnIndex(m, Fid)
      OriginalName == F.name
      Renamed      == [F EXCEPT !.name = OriginalName \o
                         (IF F.isVarArg THEN OrigVASuffix ELSE OrigSuffix)]
      Wrapper      == [id |-> m.NextId, name |-> OriginalName,
                       linkage |-> F.linkage, visibility |-> F.visibility,
                       isVarArg |-> F.isVarArg, vaListParam |-> FALSE,
                       attrs |-> wrapperAttrs(F), skip |-> FALSE,
                       section |-> F.section, body |-> <<>>]
      m1           == [m EXCEPT !.Fns = Append([@ EXCEPT ![i] = Renamed], Wrapper),
                                !.NextId = @ + 1]
  IN  [m |-> replaceWithWrapper(m1, Fid, Wrapper.id, AddressUses), Wrapper |-> Wrapper.id]

\* createWrapper: F is renamed, the wrapper takes its name, type, linkage and
\* the attributes copyAttributesFrom copies, and is put first in the module
createWrapper(m, Fid, AddressUses) ==
  LET F            == getFn(m, Fid)
      i            == fnIndex(m, Fid)
      OriginalName == F.name
      Renamed      == [F EXCEPT !.name = OriginalName \o
                         (IF F.isVarArg THEN OrigVASuffix ELSE OrigSuffix)]
      Wrapper      == [id |-> m.NextId, name |-> OriginalName,
                       linkage |-> F.linkage, visibility |-> F.visibility,
                       isVarArg |-> F.isVarArg, vaListParam |-> FALSE,
                       attrs |-> wrapperAttrs(F), skip |-> FALSE,
                       section |-> F.section, body |-> <<>>]
      m1           == [m EXCEPT !.Fns = <<Wrapper>> \o [@ EXCEPT ![i] = Renamed],
                                !.NextId = @ + 1]
  IN  [m |-> replaceWithWrapper(m1, Fid, Wrapper.id, AddressUses), Wrapper |-> Wrapper.id]

\* a rewrite that leaves the va_start in place
replaceWithVACopyCall_keep(I) == I

\* replaceWithVACopyCall: va_copy from the new argument into the list the
\* va_start initialized, in the place of the va_start
replaceWithVACopyCall(I) == Inst("va_copy", I.a, VAListArg)

\* a search that stops at the first va_start
findVAStarts_first(F) ==
  {i \in 1..Len(F.body) :
     /\ F.body[i].op = "va_start"
     /\ \A j \in 1..(i - 1) : F.body[j].op # "va_start"}

\* findVAStarts
findVAStarts(F) == {i \in 1..Len(F.body) : F.body[i].op = "va_start"}

\* rewriteVarargs: with no va_start F stays; else a new function with the
\* va_list parameter takes F's name, attributes and body, and F is erased
rewriteVarargs(m, Fid) ==
  LET F        == getFn(m, Fid)
      i        == fnIndex(m, Fid)
      VAStarts == findVAStarts(F)
      NF       == [F EXCEPT !.id = m.NextId, !.isVarArg = FALSE, !.vaListParam = TRUE,
                            !.body = [j \in 1..Len(F.body) |->
                                        IF j \in VAStarts
                                        THEN replaceWithVACopyCall(F.body[j])
                                        ELSE F.body[j]]]
  IN  IF VAStarts = {}
      THEN [m |-> m, F |-> Fid, VAListTy |-> FALSE]
      ELSE [m |-> [m EXCEPT !.Fns = SubSeq(@, 1, i - 1) \o SubSeq(@, i + 1, Len(@))
                                    \o <<NF>>,
                            !.NextId = @ + 1],
            F |-> NF.id, VAListTy |-> TRUE]

\* createWrapperBody: the call of the callee, between va_start and va_end on a
\* new va_list when there is a va_list type
createWrapperBody(m, Wid, CalleeId, VAListTy) ==
  LET i    == fnIndex(m, Wid)
      Call == Inst("call", CalleeId, -1)
      Body == IF VAListTy
              THEN <<Inst("alloca", 1, -1), Inst("va_start", 1, -1), Call,
                     Inst("va_end", 1, -1), Inst("ret", -1, -1)>>
              ELSE <<Call, Inst("ret", -1, -1)>>
  IN  [m EXCEPT !.Fns[i].body = Body,
                !.Uses = Append(@, [u |-> Len(@) + 1, kind |-> "callee", cid |-> 0,
                                    allCalls |-> FALSE, val |-> CalleeId])]

\* a pass that wraps every function
needsWrapper_always(F, AddressUses) == TRUE

\* the condition of processFunction
needsWrapper(F, AddressUses) == ~hasLocalLinkage(F) \/ AddressUses # <<>>

\* processFunction
processFunction(m, Fid) ==
  LET F           == getFn(m, Fid)
      AddressUses == addressUses(m, Fid)
  IN  IF needsWrapper(F, AddressUses)
      THEN LET c  == createWrapper(m, Fid, AddressUses)
               r  == IF F.isVarArg THEN rewriteVarargs(c.m, Fid)
                     ELSE [m |-> c.m, F |-> Fid, VAListTy |-> FALSE]
               m3 == createWrapperBody(r.m, c.Wrapper, r.F, r.VAListTy)
           IN  [m3 EXCEPT !.Fns[fnIndex(m3, r.F)].section = ""]
      ELSE [m EXCEPT !.Fns[fnIndex(m, Fid)].section = ""]

\* runOnModule, the first loop: a skipped function loses the pagerando
\* attribute, the others go on the worklist
CollectWorklist ==
  /\ wpc = "start"
  /\ Mod' = [Mod EXCEPT !.Fns = [i \in 1..Len(Mod.Fns) |->
               IF "pagerando" \in Mod.Fns[i].attrs /\ skipFunction(Mod.Fns[i])
               THEN [Mod.Fns[i] EXCEPT !.attrs = @ \ {"pagerando"}]
               ELSE Mod.Fns[i]]]
  /\ WrapWorklist' =
       LET W == SelectSeq(Mod.Fns, LAMBDA F : "pagerando" \in F.attrs /\ ~skipFunction(F))
       IN  [i \in 1..Len(W) |-> W[i].id]
  /\ wpc' = "process"
  /\ UNCHANGED Mod0
  /\ UNCHANGED notW

\* runOnModule, one iteration of the second loop
ProcessFunction ==
  /\ wpc = "process"
  /\ WrapWorklist # <<>>
  /\ Mod' = processFunction(Mod, Head(WrapWorklist))
  /\ WrapWorklist' = Tail(WrapWorklist)
  /\ UNCHANGED <<Mod0, wpc>>
  /\ UNCHANGED notW

\* runOnModule returns
FinishModule ==
  /\ wpc = "process"
  /\ WrapWorklist = <<>>
  /\ wpc' = "done"
  /\ UNCHANGED <<Mod, Mod0, WrapWorklist>>
  /\ UNCHANGED notW

\* a module of two functions, with uses of the first
InitW ==
  /\ Bins = <<>>
  /\ BinCount = 1
  /\ MaxBinSize = 0
  /\ isUniPOT = FALSE
  /\ fatal = FALSE
  /\ log = <<>>
  /\ IdleCG
  /\ IdleOpt
  /\ \E F \in TestFns : \E G \in UserFns : \E S \in UseSets :
       Mod = [Fns |-> <<F, G>>, Uses |-> useList(S, F.id, 1), NextId |-> 3]
  /\ Mod0 = Mod
  /\ WrapWorklist = <<>>
  /\ wpc = "start"

NextW == CollectWorklist \/ ProcessFunction \/ FinishModule

SpecW == InitW /\ [][NextW]_vars

-----------------------------------------------------------------------------
(* Claims on the entry-wrapper pass *)

fns(m) == {m.Fns[i] : i \in 1..Len(m.Fns)}

\* the use of module m with identity u
getUse(m, u) == CHOOSE U \in {m.Uses[i] : i \in 1..Len(m.Uses)} : U.u = u

\* the functions the pass works on: pagerando on entry and not skipped
processed(F0) == "pagerando" \in F0.attrs /\ ~skipFunction(F0)

\* C5: after the pass, for every processed function F0 of non-local linkage, a
\* function of F0's name has noinline and optsize and not pagerando, and a
\* function named F0$$orig or F0$$origva has pagerando and hidden or protected
\* visibility.
C5_NonLocalGetsWrapper ==
  wpc = "done" =>
    \A F0 \in fns(Mod0) :
      processed(F0) /\ ~hasLocalLinkage(F0) =>
        /\ \E W \in fns(Mod) :
             /\ W.name = F0.name
             /\ {"noinline", "optsize"} \subseteq W.attrs
             /\ "pagerando" \notin W.attrs
        /\ \E O \in fns(Mod) :
             /\ O.name \in {F0.name \o OrigSuffix, F0.name \o OrigVASuffix}
             /\ "pagerando" \in O.attrs
             /\ O.visibility \in {"hidden", "protected"}

\* the pass ran over a non-local pagerando function with attributes the
\* wrapper must not inherit
C5_Witness ==
  /\ wpc = "done"
  /\ \E F0 \in fns(Mod0) :
       /\ processed(F0)
       /\ ~hasLocalLinkage(F0)
       /\ "alwaysinline" \in F0.attrs
       /\ F0.visibility = "default"

\* every address-taken use of F0 on entry now has the function W as its value
addressUsesReference(F0, W) ==
  \A i \in 1..Len(Mod0.Uses) :
    LET U0 == Mod0.Uses[i]
    IN  U0.val = F0.id /\ ~skipFunctionUse(U0) => getUse(Mod, U0.u).val = W.id

\* no address-taken use has a function of that name as its value
noAddressUseOf(name) ==
  \A i \in 1..Len(Mod.Uses) :
    ~skipFunctionUse(Mod.Uses[i]) => getFn(Mod, Mod.Uses[i].val).name # name

\* C6 as stated: after the pass, for every processed local function F0 with an
\* address-taken use, each such use references a new function of F0's name,
\* a function F0$$orig exists, and no address-taken use references it.
C6_LocalAddressUsesWrappedOrig ==
  wpc = "done" =>
    \A F0 \in fns(Mod0) :
      processed(F0) /\ hasLocalLinkage(F0) /\ addressUses(Mod0, F0.id) # <<>> =>
        /\ \E W \in fns(Mod) :
             /\ W.name = F0.name
             /\ W.id \notin {G.id : G \in fns(Mod0)}
             /\ addressUsesReference(F0, W)
        /\ \E O \in fns(Mod) : O.name = F0.name \o OrigSuffix
        /\ noAddressUseOf(F0.name \o OrigSuffix)

\* C6: after the pass, for every processed local function F0 with an
\* address-taken use, each such use references a new function of F0's name,
\* the original is named F0$$orig, or F0$$origva when F0 is variadic, and no
\* address-taken use references it.
C6_LocalAddressUsesWrapped ==
  wpc = "done" =>
    \A F0 \in fns(Mod0) :
      processed(F0) /\ hasLocalLinkage(F0) /\ addressUses(Mod0, F0.id) # <<>> =>
        LET Renamed == F0.name \o (IF F0.isVarArg THEN OrigVASuffix ELSE OrigSuffix)
        IN  /\ \E W \in fns(Mod) :
                 /\ W.name = F0.name
                 /\ W.id \notin {G.id : G \in fns(Mod0)}
                 /\ addressUsesReference(F0, W)
            /\ \E O \in fns(Mod) : O.name = Renamed
            /\ noAddressUseOf(Renamed)

\* the pass ran over a local function that is two of the operands of one
\* constant
C6_Witness ==
  /\ wpc = "done"
  /\ \E F0 \in fns(Mod0) :
       /\ processed(F0)
       /\ hasLocalLinkage(F0)
       /\ ~F0.isVarArg
       /\ \E i, j \in 1..Len(Mod0.Uses) :
            /\ i # j
            /\ Mod0.Uses[i].val = F0.id
            /\ Mod0.Uses[j].val = F0.id
            /\ Mod0.Uses[i].kind = "const"
            /\ Mod0.Uses[i].cid = Mod0.Uses[j].cid

\* C7: after the pass, for every pagerando function F0 of local linkage with no
\* address-taken use, F0 is still there under its name, no other function has
\* that name or the name of a renamed F0, and every call that had F0 as its
\* callee still has.
C7_LocalWithoutAddressUsesUntouched ==
  wpc = "done" =>
    \A F0 \in fns(Mod0) :
      /\ "pagerando" \in F0.attrs
      /\ hasLocalLinkage(F0)
      /\ addressUses(Mod0, F0.id) = <<>>
      => /\ \E F \in fns(Mod) : F.id = F0.id /\ F.name = F0.name
         /\ \A F \in fns(Mod) :
              /\ F.name = F0.name => F.id = F0.id
              /\ F.name \notin {F0.name \o OrigSuffix, F0.name \o OrigVASuffix}
         /\ \A i \in 1..Len(Mod0.Uses) :
              Mod0.Uses[i].val = F0.id /\ Mod0.Uses[i].kind = "callee" =>
                getUse(Mod, Mod0.Uses[i].u).val = F0.id

\* the pass ran over a local pagerando function that is called directly and
\* only has uses the pass skips
C7_Witness ==
  /\ wpc = "done"
  /\ \E F0 \in fns(Mod0) :
       /\ processed(F0)
       /\ hasLocalLinkage(F0)
       /\ addressUses(Mod0, F0.id) = <<>>
       /\ \E i \in 1..Len(Mod0.Uses) :
            Mod0.Uses[i].val = F0.id /\ Mod0.Uses[i].kind = "callee"

\* a processed variadic function that gets a wrapper and has one va_start
wrappedSingleVAStart(F0) ==
  /\ processed(F0)
  /\ F0.isVarArg
  /\ needsWrapper(F0, addressUses(Mod0, F0.id))
  /\ Cardinality(findVAStarts(F0)) = 1

C14_EveryUseReplaced ==
  wpc = "done" =>
    \A F0 \in fns(Mod0) :
      /\ processed(F0)
      /\ needsWrapper(F0, addressUses(Mod0, F0.id))
      /\ F0.isVarArg \/ (F0.linkage # "internal" /\ F0.visibility # "protected")
      => \E W \in fns(Mod) :
           /\ W.name = F0.name
           /\ W.id \notin {G.id : G \in fns(Mod0)}
           /\ \A i \in 1..Len(Mod0.Uses) :
                Mod0.Uses[i].val = F0.id => getUse(Mod, Mod0.Uses[i].u).val = W.id

\* the pass ran over a local variadic function that is called directly and
\* has its address taken
C14_Witness ==
  /\ wpc = "done"
  /\ \E F0 \in fns(Mod0) :
       /\ processed(F0)
       /\ F0.isVarArg
       /\ F0.linkage = "internal"
       /\ \E i, j \in 1..Len(Mod0.Uses) :
            /\ Mod0.Uses[i].val = F0.id /\ Mod0.Uses[i].kind = "callee"
            /\ Mod0.Uses[j].val = F0.id /\ Mod0.Uses[j].kind = "operand"
            /\ getUse(Mod, Mod0.Uses[i].u).val # F0.id

\* the instructions of function F with the given opcode, by position
sitesOf(F, op) == {j \in 1..Len(F.body) : F.body[j].op = op}

\* C17: the $$origva function of a wrapped variadic function with two or more
\* va_starts has, in the place of each va_start, a va_copy from the trailing
\* va_list parameter into the allocation the va_start initialized, no va_start
\* is left, and every va_list allocation is where and what it was.
C17_EachVAStartBecomesVACopy ==
  wpc = "done" =>
    \A F0 \in fns(Mod0) :
      /\ processed(F0)
      /\ F0.isVarArg
      /\ needsWrapper(F0, addressUses(Mod0, F0.id))
      /\ Cardinality(sitesOf(F0, "va_start")) >= 2
      => \E O \in fns(Mod) :
           /\ O.name = F0.name \o OrigVASuffix
           /\ O.vaListParam
           /\ Len(O.body) = Len(F0.body)
           /\ sitesOf(O, "va_start") = {}
           /\ sitesOf(O, "alloca") = sitesOf(F0, "alloca")
           /\ \A j \in sitesOf(F0, "alloca") : O.body[j] = F0.body[j]
           /\ \A j \in sitesOf(F0, "va_start") :
                /\ O.body[j] = Inst("va_copy", F0.body[j].a, VAListArg)
                /\ \E k \in sitesOf(O, "alloca") : O.body[k].a = O.body[j].a

\* the pass ran over a variadic function that got a wrapper and has two
\* va_starts, each on a va_list of its own
C17_Witness ==
  /\ wpc = "done"
  /\ \E F0 \in fns(Mod0) :
       /\ processed(F0)
       /\ F0.isVarArg
       /\ needsWrapper(F0, addressUses(Mod0, F0.id))
       /\ \E j, k \in sitesOf(F0, "va_start") : F0.body[j].a # F0.body[k].a
       /\ \E O \in fns(Mod) : O.name = F0.name \o OrigVASuffix

\* C26: after the pass every use that is not one the pass skips - a callee
\* operand, a block address, a personality, a bitcast that is only called -
\* has as its value a function without the pagerando attribute.
C26_NoAddressUseOfBinnedFunction ==
  wpc = "done" =>
    \A i \in 1..Len(Mod.Uses) :
      LET U == Mod.Uses[i]
      IN  \/ U.kind \in {"callee", "blockaddress", "personality"}
          \/ U.kind = "bitcast" /\ U.allCalls
          \/ \E W \in fns(Mod) : W.id = U.val /\ "pagerando" \notin W.attrs

\* the pass ran over a local pagerando function that had two address-taken
\* uses in different users, and over one that had an address-taken use and is
\* still called directly
C26_Witness ==
  /\ wpc = "done"
  /\ \E F0 \in fns(Mod0) :
       /\ processed(F0)
       /\ hasLocalLinkage(F0)
       /\ ~F0.isVarArg
       /\ \E i, j \in 1..Len(Mod0.Uses) :
            /\ i # j
            /\ Mod0.Uses[i].val = F0.id /\ Mod0.Uses[j].val = F0.id
            /\ Mod0.Uses[i].kind = "gvinit"
            /\ Mod0.Uses[j].kind \in {"operand", "alias", "const"}
       /\ \E O \in fns(Mod) : O.id = F0.id /\ "pagerando" \in O.attrs

\* the functions createWrapper made: a function that was not in the module
\* before the pass and bears the name a function had then
wrapperIndices ==
  {i \in 1..Len(Mod.Fns) :
     /\ Mod.Fns[i].id >= Mod0.NextId
     /\ \E F0 \in fns(Mod0) : F0.name = Mod.Fns[i].name}

-----------------------------------------------------------------------------
(* Entry-wrapper pass as in lib/Transforms/IPO/PagerandoWrappers.cpp: every
   function that is not skipped is processed, and the pass creates the POT *)

WrapperSuffix == "$$wrap"

\* a function declaration named "user": skipFunction holds of it
Declarations ==
  {Fn(2, "user", "external", "default", FALSE, {}, TRUE, <<>>)}

\* skipFunctionUse of this pass: the user may also be a global alias
skipFunctionUseIPO(U) == skipFunctionUse(U) \/ U.kind = "alias"

\* the loop of createWrapper over AddressUses with replaceAddressTakenUse as
\* its body: a global variable gets a new initializer, a constant has its
\* operands changed once, any other user has the use set
RECURSIVE replaceAddressTakenUse(_, _, _, _, _)
replaceAddressTakenUse(Us, AddressUses, Constants, From, To) ==
  IF AddressUses = <<>> THEN Us
  ELSE LET u    == Head(AddressUses).u
           U    == CHOOSE x \in {Us[i] : i \in 1..Len(Us)} : x.u = u
           rest == Tail(AddressUses)
       IN  IF U.val # From
           THEN replaceAddressTakenUse(Us, rest, Constants, From, To)
           ELSE IF U.kind = "gvinit"
           THEN replaceAddressTakenUse(setUse(Us, u, To), rest, Constants, From, To)
           ELSE IF U.cid # 0
           THEN IF U.cid \in Constants
                THEN replaceAddressTakenUse(Us, rest, Constants, From, To)
                ELSE replaceAddressTakenUse(handleOperandChange(Us, U, From, To), rest,
                                            Constants \cup {U.cid}, From, To)
           ELSE replaceAddressTakenUse(setUse(Us, u, To), rest, Constants, From, To)

\* createWrapper of this pass: the wrapper is appended to the module as
\* F$$wrap with F's attributes and those of a wrapper; for a non-local or
\* variadic F it takes F's name, F is renamed, all uses of F go to the wrapper
\* and a non-local F is hidden; else the address-taken uses are replaced
createWrapperIPO(m, Fid, AddressUses) ==
  LET F       == getFn(m, Fid)
      i       == fnIndex(m, Fid)
      TakesName == ~hasLocalLinkage(F) \/ F.isVarArg
      Wrapper == [id |-> m.NextId,
                  name |-> IF TakesName THEN F.name ELSE F.name \o WrapperSuffix,
                  linkage |-> F.linkage, visibility |-> F.visibility,
                  isVarArg |-> F.isVarArg, vaListParam |-> FALSE,
                  attrs |-> F.attrs \cup {"pagerando_wrapper", "noinline", "optsize"},
                  skip |-> FALSE, section |-> F.section, body |-> <<>>]
      Renamed == [F EXCEPT !.name = @ \o (IF F.isVarArg THEN OrigVASuffix ELSE OrigSuffix),
                           !.visibility = IF ~hasLocalLinkage(F) THEN "hidden" ELSE @]
  IN  [m |-> IF TakesName
             THEN [m EXCEPT !.Fns = Append([@ EXCEPT ![i] = Renamed], Wrapper),
                            !.Uses = replaceAllUsesWith(@, Fid, Wrapper.id),
                            !.NextId = @ + 1]
             ELSE [m EXCEPT !.Fns = Append(@, Wrapper),
                            !.Uses = replaceAddressTakenUse(@, AddressUses, {}, Fid,
                                                            Wrapper.id),
                            !.NextId = @ + 1],
       Wrapper |-> Wrapper.id]

\* rewriteVarargs of this pass: with one va_start the va_list alloca and the
\* va_start go and the uses of the alloca become uses of the new parameter;
\* with more, each va_start becomes a va_copy into its va_list
rewriteVarargsIPO(m, Fid) ==
  LET F        == getFn(m, Fid)
      i        == fnIndex(m, Fid)
      VAStarts == findVAStarts(F)
      First    == CHOOSE j \in VAStarts : \A k \in VAStarts : j <= k
      VAListAlloca == F.body[First].a
      Single   == LET Kept == SelectSeq(F.body, LAMBDA I :
                                ~(I.op = "alloca" /\ I.a = VAListAlloca)
                                /\ I.op # "va_start")
                  IN  [j \in 1..Len(Kept) |->
                         IF Kept[j].a = VAListAlloca
                         THEN [Kept[j] EXCEPT !.a = VAListArg] ELSE Kept[j]]
      Several  == [j \in 1..Len(F.body) |->
                     IF j \in VAStarts
                     THEN Inst("va_copy", F.body[j].a, VAListArg)
                     ELSE F.body[j]]
      NF       == [F EXCEPT !.id = m.NextId, !.isVarArg = FALSE, !.vaListParam = TRUE,
                            !.body = IF Cardinality(VAStarts) = 1 THEN Single
                                     ELSE Several]
  IN  IF VAStarts = {}
      THEN [m |-> m, F |-> Fid, VAListTy |-> FALSE]
      ELSE [m |-> [m EXCEPT !.Fns = SubSeq(@, 1, i - 1) \o SubSeq(@, i + 1, Len(@))
                                    \o <<NF>>,
                            !.NextId = @ + 1],
            F |-> NF.id, VAListTy |-> TRUE]

\* createWrapperBody of this pass: createVAList when there is a va_list type,
\* the call of the callee and the return
createWrapperBodyIPO(m, Wid, CalleeId, VAListTy) ==
  LET i    == fnIndex(m, Wid)
      Call == Inst("call", CalleeId, -1)
      Body == IF VAListTy
              THEN <<Inst("alloca", 1, -1), Inst("va_start", 1, -1), Call,
                     Inst("ret", -1, -1)>>
              ELSE <<Call, Inst("ret", -1, -1)>>
  IN  [m EXCEPT !.Fns[i].body = Body,
                !.Uses = Append(@, [u |-> Len(@) + 1, kind |-> "callee", cid |-> 0,
                                    allCalls |-> FALSE, val |-> CalleeId])]

\* processFunction of this pass
processFunctionIPO(m, Fid) ==
  LET F           == getFn(m, Fid)
      AddressUses == SelectSeq(usesOf(m, Fid), LAMBDA U : ~skipFunctionUseIPO(U))
      Binned(mm, id) == [mm EXCEPT !.Fns[fnIndex(mm, id)].section = "",
                                   !.Fns[fnIndex(mm, id)].attrs =
                                      @ \cup {"pagerando_binned"}]
  IN  IF ~hasLocalLinkage(F) \/ AddressUses # <<>>
      THEN LET c  == createWrapperIPO(m, Fid, AddressUses)
               r  == IF F.isVarArg THEN rewriteVarargsIPO(c.m, Fid)
                     ELSE [m |-> c.m, F |-> Fid, VAListTy |-> FALSE]
               m3 == createWrapperBodyIPO(r.m, c.Wrapper, r.F, r.VAListTy)
           IN  Binned(m3, r.F)
      ELSE Binned(m, Fid)

\* a pass that leaves the module without a POT
createPOT_none(m) == m

\* createPOT: a constant external global named llvm.pot, an array of one
\* i8*, zero-initialized, of protected visibility, appended to llvm.used
createPOT(m) ==
  LET POT == [name |-> "llvm.pot", constant |-> TRUE, linkage |-> "external",
              visibility |-> "protected", NumElements |-> 1]
  IN  [m EXCEPT !.Globals = Append(@, POT), !.Used = Append(@, POT.name)]

\* runOnModule, the first loop and the return on an empty worklist
CollectWorklistIPO ==
  /\ wpc = "start"
  /\ LET W == SelectSeq(Mod.Fns, LAMBDA F : ~skipFunction(F))
     IN  /\ WrapWorklist' = [i \in 1..Len(W) |-> W[i].id]
         /\ wpc' = IF W = <<>> THEN "done" ELSE "process"
  /\ UNCHANGED <<Mod, Mod0>>
  /\ UNCHANGED notW

\* runOnModule, one iteration of the second loop
ProcessFunctionIPO ==
  /\ wpc = "process"
  /\ WrapWorklist # <<>>
  /\ Mod' = processFunctionIPO(Mod, Head(WrapWorklist))
  /\ WrapWorklist' = Tail(WrapWorklist)
  /\ UNCHANGED <<Mod0, wpc>>
  /\ UNCHANGED notW

\* runOnModule, after the loop: the POT is created and the pass returns
CreatePOT ==
  /\ wpc = "process"
  /\ WrapWorklist = <<>>
  /\ Mod' = createPOT(Mod)
  /\ wpc' = "done"
  /\ UNCHANGED <<Mod0, WrapWorklist>>
  /\ UNCHANGED notW

\* a module of two functions, with uses of the first, the global variable
\* that a use as initializer implies, and an empty llvm.used
InitIPO ==
  /\ Bins = <<>>
  /\ BinCount = 1
  /\ MaxBinSize = 0
  /\ isUniPOT = FALSE
  /\ fatal = FALSE
  /\ log = <<>>
  /\ IdleCG
  /\ IdleOpt
  /\ \E F \in TestFns : \E G \in UserFns \cup Declarations : \E S \in UseSets :
       Mod = [Fns |-> <<F, G>>, Uses |-> useList(S, F.id, 1), NextId |-> 3,
              Globals |-> IF \E U \in S : U.kind = "gvinit"
                          THEN <<[name |-> "gv", constant |-> FALSE,
                                  linkage |-> "external", visibility |-> "default",
                                  NumElements |-> 1]>>
                          ELSE <<>>,
              Used |-> <<>>]
  /\ Mod0 = Mod
  /\ WrapWorklist = <<>>
  /\ wpc = "start"

NextIPO == CollectWorklistIPO \/ ProcessFunctionIPO \/ CreatePOT

SpecIPO == InitIPO /\ [][NextIPO]_vars

\* the global variables of the module that are named llvm.pot
pots == {i \in 1..Len(Mod.Globals) : Mod.Globals[i].name = "llvm.pot"}

\* the wrappers the pass created
wrappers == {W \in fns(Mod) : "pagerando_wrapper" \in W.attrs}

=============================================================================
